---- MODULE Spec2Model ----
(***************************************************************************)
(* f1-race-replay: the telemetry pipeline of src/f1_data.py                *)
(* (get_race_telemetry) and the leaderboard verifier of                    *)
(* src/leaderboard_verifier.py.                                            *)
(*                                                                         *)
(* get_race_telemetry is one long function; it is modelled phase by phase, *)
(* each phase with the specification that drives it:                       *)
(*   SpecNormalizer  lines 96-199  per-driver lap merge and re-sort        *)
(*   SpecTimeline    lines 89-202  driver loop, global range, time grid    *)
(*   Spec            lines 277-365 the tick loop building the frames       *)
(*   SpecCache       lines 41-53, 367-390  the computed_data/ cache        *)
(*   SpecVerifier    leaderboard_verifier.py lines 16-137                  *)
(*                                                                         *)
(* Times are integers in units of 1/TimeUnitsPerSecond s, so that DT is    *)
(* exact; distances, laps and positions are integers.  Channels that the   *)
(* pipeline only copies (x, y, rel_dist, tyre, speed, gear, drs) are left  *)
(* out of samples and frames.                                              *)
(***************************************************************************)
EXTENDS Integers, Sequences, FiniteSets, TLC

VARIABLES
    pc,                         \* position of the running phase
    error,                      \* the exception propagating out, or None
    \* ---- driver loop and timeline (f1_data.py 89-202)
    drivers,                    \* session.drivers, as driver codes
    session_laps,               \* per driver: laps in order, each its telemetry
    driver_idx,                 \* position of the driver loop
    driver_data,
    global_t_min,
    global_t_max,
    \* ---- tick loop (f1_data.py 56-87, 277-365)
    results,                    \* session.results rows, by driver code
    driver_status_map,
    resampled_codes,            \* keys of resampled_data, in insertion order
    timeline,
    i,                          \* enumerate index of the next tick
    frames,
    driver_last_seen_lap,
    driver_finish_frame,
    race_leader_finished_frame,
    \* ---- leaderboard verifier (leaderboard_verifier.py)
    current_positions,          \* argument of verify_and_correct_final_positions
    response,                   \* what the Jolpica endpoint answers
    returned,                   \* the value the function returned, or None
    \* ---- result cache (f1_data.py 41-53, 367-390)
    sessions,                   \* the loaded sessions, by id
    cache,                      \* computed_data/: file content by event name
    requests,                   \* calls of get_race_telemetry made so far
    computations,               \* per session: runs that computed the bundle
    first_returned,             \* per session: what the first computation returned
    last_call,                  \* the last call: its arguments and what it did
    \* ---- concurrent runs on one cache file (f1_data.py 45-53, 368-380)
    file,                       \* the event's cache file: None, or its text on disk
    file_before,                \* the file as it was before the runs started
    procs                       \* per run of get_race_telemetry: its position

verifierVars == <<current_positions, response>>

concurrentVars == <<file, file_before, procs>>

cacheVars == <<sessions, cache, requests, computations, first_returned, last_call,
               concurrentVars>>

traceVars == <<drivers, session_laps, driver_idx, driver_data,
               global_t_min, global_t_max>>

tickVars == <<results, driver_status_map, resampled_codes, i, frames,
              driver_last_seen_lap, driver_finish_frame,
              race_leader_finished_frame>>

vars == <<pc, error, returned, traceVars, timeline, tickVars, verifierVars,
          cacheVars>>

(***************************************************************************)
(* Python values                                                           *)
(***************************************************************************)
None == <<>>
Some(x) == <<x>>

\* d[k] = v on a dict
Put(d, k, v) == [x \in (DOMAIN d) \cup {k} |-> IF x = k THEN v ELSE d[x]]

EmptyDict == [x \in {} |-> 0]

SetMax(S) == CHOOSE m \in S : \A x \in S : x <= m
SetMin(S) == CHOOSE m \in S : \A x \in S : m <= x

(***************************************************************************)
(* Bounds and input domains                                                *)
(***************************************************************************)
MaxTicks == 2                   \* ticks of the timeline the loop runs over

FPS == 25
TimeUnitsPerSecond == 100
DT == TimeUnitsPerSecond \div FPS

Codes == {"VER", "HAM"}
\* resampled_data.items(): dict insertion order of the drivers with data
ResampledOrders == {<<"VER", "HAM">>, <<"HAM">>}
\* any order and tie pattern of two drivers is realised by two distances
DistValues == {0, 1}
LapValues == {1, 2}
StatusValues == {"Finished", "+1 Lap", "Retired"}
ClassValues == {"1", "R"}
LapsValues == {0, 1}

MaxLaps == 2                    \* laps of a driver the normalizer merges
SampleCounts == {0, 1, 2}       \* samples in one lap's telemetry
NormTimes == {0, 1, 2, 3}
NormDists == {0, 1}
MaxT == 9                       \* largest session time of the timeline's inputs

MaxResults == 2                 \* entries of the external result list
MaxRequests == 3                \* calls of get_race_telemetry in a run of the cache
PositionStrings == {"1", "2", "R"}
PositionValues == {1, 2}        \* telemetry-derived positions

(***************************************************************************)
(* Timeline grid (f1_data.py 201-202)                                      *)
(***************************************************************************)
RECURSIVE ArangeClosed(_, _, _)
\* an evenly spaced grid that includes its end point
ArangeClosed(start, stop, step) ==
    IF start > stop THEN <<>>
    ELSE <<start>> \o ArangeClosed(start + step, stop, step)

RECURSIVE Arange(_, _, _)
\* np.arange(start, stop, step): the values start, start + step, ... of
\* the half-open interval [start, stop)
Arange(start, stop, step) ==
    IF start >= stop THEN <<>>
    ELSE <<start>> \o Arange(start + step, stop, step)

\* timeline = np.arange(global_t_min, global_t_max, DT) - global_t_min
Timeline(t_min, t_max) ==
    LET grid == Arange(t_min, t_max, DT)
    IN  [k \in 1..Len(grid) |-> grid[k] - t_min]

(***************************************************************************)
(* Per-driver lap normalizer (f1_data.py 96-199)                           *)
(***************************************************************************)
SeqMin(s) == SetMin({s[k] : k \in 1..Len(s)})
SeqMax(s) == SetMax({s[k] : k \in 1..Len(s)})

\* 142-144 with the running total dropped: each lap restarts at 0
NormalizeLapNoCarry(acc, lap_tel, lap_number) ==
    IF Len(lap_tel) = 0 THEN acc
    ELSE LET d_min == SeqMin([k \in 1..Len(lap_tel) |-> lap_tel[k].d])
             d_lap == [k \in 1..Len(lap_tel) |-> lap_tel[k].d - d_min]
         IN  [total |-> acc.total,
              t     |-> acc.t \o [k \in 1..Len(lap_tel) |-> lap_tel[k].t],
              dist  |-> acc.dist \o d_lap,
              lap   |-> acc.lap \o [k \in 1..Len(lap_tel) |-> lap_number]]

\* one lap of "for _, lap in laps_driver.iterlaps()" (119-155);
\* acc is [total, t, dist, lap]: total_dist_so_far and the merged channels
NormalizeLap(acc, lap_tel, lap_number) ==
    IF Len(lap_tel) = 0 THEN acc                        \* 125-126
    ELSE LET d_min      == SeqMin([k \in 1..Len(lap_tel) |-> lap_tel[k].d])
             d_lap      == [k \in 1..Len(lap_tel) |-> lap_tel[k].d - d_min]
             lap_length == SeqMax(d_lap)
             race_d_lap == [k \in 1..Len(lap_tel) |-> acc.total + d_lap[k]]
         IN  [total |-> acc.total + lap_length,
              t     |-> acc.t \o [k \in 1..Len(lap_tel) |-> lap_tel[k].t],
              dist  |-> acc.dist \o race_d_lap,
              lap   |-> acc.lap \o [k \in 1..Len(lap_tel) |-> lap_number]]

RECURSIVE MergeLaps(_, _, _)
\* 116-169: the laps from lap n on, merged in lap order
MergeLaps(acc, laps, n) ==
    IF n > Len(laps) THEN acc
    ELSE MergeLaps(NormalizeLap(acc, laps[n], n), laps, n + 1)

EmptyTrace == [total |-> 0, t |-> <<>>, dist |-> <<>>, lap |-> <<>>]

RECURSIVE SortedOrders(_, _)
\* np.argsort(t_all) (171): the default kind is quicksort, which is not
\* stable, so every index order that sorts t is a possible result
SortedOrders(t, left) ==
    IF left = {} THEN {<<>>}
    ELSE UNION {{<<m>> \o rest : rest \in SortedOrders(t, left \ {m})} :
                m \in {x \in left : \A y \in left : t[x] <= t[y]}}

Argsort(t) == SortedOrders(t, 1..Len(t))

\* a[order] (172-181)
Take(a, order) == [k \in 1..Len(order) |-> a[order[k]]]

\* 198-199
MinOpt(cur, v) == IF cur = None THEN Some(v) ELSE Some(IF cur[1] < v THEN cur[1] ELSE v)
MaxOpt(cur, v) == IF cur = None THEN Some(v) ELSE Some(IF cur[1] > v THEN cur[1] ELSE v)

\* one iteration of "for driver_no in drivers" (96-199)
ProcessDriver ==
    /\ pc = "drivers"
    /\ driver_idx <= Len(drivers)
    /\ LET code   == drivers[driver_idx]
           laps   == session_laps[code]
           merged == MergeLaps(EmptyTrace, laps, 1)
       IN  IF Len(laps) = 0 \/ Len(merged.t) = 0
           THEN \* 102-103 laps_driver.empty, 157-158 no lap with telemetry
                UNCHANGED <<driver_data, global_t_min, global_t_max>>
           ELSE \E order \in Argsort(merged.t) :
                LET t_all == Take(merged.t, order)
                IN  /\ driver_data' = Put(driver_data, code,
                           [t    |-> t_all,
                            dist |-> Take(merged.dist, order),
                            lap  |-> Take(merged.lap, order)])
                    /\ global_t_min' = MinOpt(global_t_min, SeqMin(t_all))
                    /\ global_t_max' = MaxOpt(global_t_max, SeqMax(t_all))
    /\ driver_idx' = driver_idx + 1
    /\ UNCHANGED <<pc, error, returned, drivers, session_laps, timeline,
                   tickVars, verifierVars, cacheVars>>

\* 201-202: np.arange(None, None, DT) raises TypeError when no driver set
\* global_t_min
BuildTimeline ==
    /\ pc = "drivers"
    /\ driver_idx > Len(drivers)
    /\ IF global_t_min = None
       THEN /\ pc' = "raised"
            /\ error' = Some("TypeError")
            /\ UNCHANGED timeline
       ELSE /\ pc' = "resample"
            /\ timeline' = Timeline(global_t_min[1], global_t_max[1])
            /\ UNCHANGED error
    /\ UNCHANGED <<returned, traceVars, tickVars, verifierVars, cacheVars>>

NextTraces == ProcessDriver \/ BuildTimeline

\* the driver loop is not part of this phase
TraceIdle ==
    /\ drivers = <<>>
    /\ session_laps = EmptyDict
    /\ driver_idx = 1
    /\ driver_data = EmptyDict
    /\ global_t_min = None
    /\ global_t_max = None

\* the cache is not part of this phase
\* no concurrent runs on a cache file in this phase
ConcurrentIdle ==
    /\ file = None
    /\ file_before = None
    /\ procs = EmptyDict

CacheIdle ==
    /\ sessions = EmptyDict
    /\ cache = EmptyDict
    /\ requests = 0
    /\ computations = EmptyDict
    /\ first_returned = EmptyDict
    /\ last_call = None
    /\ ConcurrentIdle

\* the verifier is not part of this phase
VerifierIdle ==
    /\ current_positions = EmptyDict
    /\ response = None
    /\ returned = None

\* the tick loop is not part of this phase
TicksIdle ==
    /\ results = EmptyDict
    /\ driver_status_map = EmptyDict
    /\ resampled_codes = <<>>
    /\ i = 0
    /\ frames = <<>>
    /\ driver_last_seen_lap = EmptyDict
    /\ driver_finish_frame = EmptyDict
    /\ race_leader_finished_frame = None

\* sequences over S with a length in lens
SeqsOfLen(S, lens) == UNION {[1..m -> S] : m \in lens}

NonDecreasing(s) == \A k \in 1..(Len(s) - 1) : s[k] <= s[k + 1]
StrictlyIncreasing(s) == \A k \in 1..(Len(s) - 1) : s[k] < s[k + 1]

\* lap telemetry of the normalizer's inputs: samples [t, d], within a lap
\* in time order (a lap's telemetry is a slice of a time-indexed stream);
\* the laps of a driver may overlap in time
NormSamples == [t : NormTimes, d : NormDists]
NormLaps ==
    {tel \in SeqsOfLen(NormSamples, SampleCounts) :
        StrictlyIncreasing([k \in 1..Len(tel) |-> tel[k].t])}

\* the state at line 96 for a session of one driver
InitNormalizer ==
    /\ pc = "drivers"
    /\ error = None
    /\ drivers = <<"VER">>
    /\ session_laps \in [{"VER"} -> SeqsOfLen(NormLaps, 0..MaxLaps)]
    /\ driver_idx = 1
    /\ driver_data = EmptyDict
    /\ global_t_min = None
    /\ global_t_max = None
    /\ timeline = <<>>
    /\ TicksIdle
    /\ VerifierIdle
    /\ CacheIdle

SpecNormalizer == InitNormalizer /\ [][NextTraces]_vars

\* lap telemetry of the timeline's inputs: timestamps only, distance 0
GridSamples == [t : 0..MaxT, d : {0}]
\* a driver has no laps, a lap without telemetry, or a lap of 1 or 2 samples
GridLaps == {<<>>} \cup {<<tel>> : tel \in SeqsOfLen(GridSamples, SampleCounts)}

\* the state at line 96 for a session of two drivers
InitTimeline ==
    /\ pc = "drivers"
    /\ error = None
    /\ drivers = <<"VER", "HAM">>
    /\ session_laps \in [Codes -> GridLaps]
    /\ driver_idx = 1
    /\ driver_data = EmptyDict
    /\ global_t_min = None
    /\ global_t_max = None
    /\ timeline = <<>>
    /\ TicksIdle
    /\ VerifierIdle
    /\ CacheIdle

SpecTimeline == InitTimeline /\ [][NextTraces]_vars

(***************************************************************************)
(* Driver status (f1_data.py 63-87)                                        *)
(***************************************************************************)
\* 'Finished' in str(status)
ContainsFinished(status) == status \in {"Finished"}
\* '+' in str(status)
ContainsPlus(status) == status \in {"+1 Lap"}

DnfClassifications == {"R", "D", "E", "W", "N"}

IsFinished(row) == ContainsFinished(row.Status) \/ ContainsPlus(row.Status)

IsDnf(row) ==
    \/ row.ClassifiedPosition \in DnfClassifications
    \/ (~IsFinished(row) /\ row.Laps > 0)

DriverStatus(row) ==
    [status         |-> row.Status,
     classification |-> row.ClassifiedPosition,
     laps_completed |-> IF row.Laps # 0 THEN row.Laps ELSE 0,
     is_finished    |-> IsFinished(row),
     is_dnf         |-> IsDnf(row)]

\* for _, driver_result in results.iterrows(): driver_status_map[code] = ...
BuildDriverStatusMap(rows) == [c \in DOMAIN rows |-> DriverStatus(rows[c])]

ResultRows == [Status : StatusValues, ClassifiedPosition : ClassValues,
               Laps : LapsValues]

(***************************************************************************)
(* Tick loop (f1_data.py 277-365)                                          *)
(***************************************************************************)
\* the snapshot list of one tick, in resampled_data order (287-299)
BuildSnapshot(codes, sample) ==
    [k \in 1..Len(codes) |->
        [code |-> codes[k], dist |-> sample[codes[k]].dist,
         lap |-> sample[codes[k]].lap]]

RemoveAt(s, m) == [k \in 1..(Len(s) - 1) |-> IF k < m THEN s[k] ELSE s[k + 1]]

\* the element list.sort(key=dist, reverse=True) puts first: the largest
\* dist, and among equal ones the earliest (the sort is stable)
FirstMaxIndex(s) ==
    CHOOSE m \in 1..Len(s) :
        /\ \A k \in 1..Len(s) : s[k].dist <= s[m].dist
        /\ \A k \in 1..(m - 1) : s[k].dist < s[m].dist

FirstMinIndex(s) ==
    CHOOSE m \in 1..Len(s) :
        /\ \A k \in 1..Len(s) : s[m].dist <= s[k].dist
        /\ \A k \in 1..(m - 1) : s[m].dist < s[k].dist

RECURSIVE SortByDistAsc(_)
\* the sort without reverse=True: ascending by distance
SortByDistAsc(s) ==
    IF Len(s) = 0 THEN <<>>
    ELSE LET m == FirstMinIndex(s)
         IN  <<s[m]>> \o SortByDistAsc(RemoveAt(s, m))

RECURSIVE SortByDistDesc(_)
\* snapshot.sort(key=lambda r: r["dist"], reverse=True)   (307)
SortByDistDesc(s) ==
    IF Len(s) = 0 THEN <<>>
    ELSE LET m == FirstMaxIndex(s)
         IN  <<s[m]>> \o SortByDistDesc(RemoveAt(s, m))

\* the leader-finish frame recomputed from whoever leads at this tick
LeaderFinishRecomputed(leader, idx, book) ==
    IF /\ leader.code \in DOMAIN driver_status_map
       /\ leader.lap > driver_status_map[leader.code].laps_completed
    THEN [rlff |-> IF book.rlff = None THEN Some(idx) ELSE book.rlff,
          dff |-> Put(book.dff, leader.code, idx)]
    ELSE [rlff |-> None, dff |-> book.dff]

\* 313-319: the leader's finish; book is [rlff, dff]
LeaderFinish(leader, idx, book) ==
    IF /\ leader.code \in DOMAIN driver_status_map
       /\ leader.lap > driver_status_map[leader.code].laps_completed
       /\ book.rlff = None
    THEN [rlff |-> Some(idx), dff |-> Put(book.dff, leader.code, idx)]
    ELSE book

\* 327-334: one car of the per-driver loop
CarFinish(car, idx, dff) ==
    IF /\ car.code \in DOMAIN driver_status_map
       /\ car.lap > driver_status_map[car.code].laps_completed
       /\ car.code \notin DOMAIN dff
       /\ driver_status_map[car.code].is_finished
    THEN Put(dff, car.code, idx)
    ELSE dff

RECURSIVE DriversFinish(_, _, _)
\* 322-336: for car in snapshot
DriversFinish(snap, idx, dff) ==
    IF Len(snap) = 0 THEN dff
    ELSE DriversFinish(Tail(snap), idx, CarFinish(Head(snap), idx, dff))

\* 336: driver_last_seen_lap[code] = current_lap, for every car
LastSeen(snap, seen) ==
    [c \in DOMAIN seen |->
        IF \E k \in 1..Len(snap) : snap[k].code = c
        THEN (CHOOSE car \in {snap[k] : k \in 1..Len(snap)} : car.code = c).lap
        ELSE seen[c]]

\* 339-357: position = idx + 1 in the sorted snapshot
FrameData(snap) ==
    [c \in {snap[k].code : k \in 1..Len(snap)} |->
        LET k == CHOOSE j \in 1..Len(snap) : snap[j].code = c
        IN  [dist |-> snap[k].dist, lap |-> snap[k].lap, position |-> k]]

\* 359-365
Frame(t, leader_lap, snap, rlff) ==
    [t |-> t, lap |-> leader_lap, drivers |-> FrameData(snap),
     race_finished |-> rlff # None, leader_finished_frame |-> rlff]

Samples(codes) ==
    [{codes[k] : k \in 1..Len(codes)} -> [dist : DistValues, lap : LapValues]]

\* one iteration of "for i, t in enumerate(timeline)" (285-365); sample is
\* resampled_data[code][channel][i] for every code; after the last tick the
\* loop is left for the assembly of the result (366)
Tick ==
    /\ pc = "ticks"
    /\ i < Len(timeline)
    /\ \E sample \in Samples(resampled_codes) :
        LET unsorted == BuildSnapshot(resampled_codes, sample)
            snapshot == SortByDistDesc(unsorted)
            leader   == snapshot[1]
            book1    == LeaderFinish(leader, i,
                            [rlff |-> race_leader_finished_frame,
                             dff |-> driver_finish_frame])
            dff2     == DriversFinish(snapshot, i, book1.dff)
        IN  IF Len(unsorted) = 0
            THEN \* 302-303: no frame for this tick
                 /\ i' = i + 1
                 /\ UNCHANGED <<frames, driver_last_seen_lap,
                                driver_finish_frame,
                                race_leader_finished_frame>>
            ELSE /\ race_leader_finished_frame' = book1.rlff
                 /\ driver_finish_frame' = dff2
                 /\ driver_last_seen_lap' = LastSeen(snapshot, driver_last_seen_lap)
                 /\ frames' = Append(frames,
                        Frame(timeline[i + 1], leader.lap, snapshot, book1.rlff))
                 /\ i' = i + 1
    /\ pc' = IF i + 1 = Len(timeline) THEN "assembled" ELSE pc
    /\ UNCHANGED <<error, returned, traceVars, timeline, results,
                   driver_status_map, resampled_codes, verifierVars, cacheVars>>

\* the state at line 285: status map built from session.results, the
\* bookkeeping of 281-283 empty
InitTicks ==
    /\ pc = "ticks"
    /\ error = None
    /\ TraceIdle
    /\ VerifierIdle
    /\ CacheIdle
    /\ \E present \in SUBSET Codes : results \in [present -> ResultRows]
    /\ driver_status_map = BuildDriverStatusMap(results)
    /\ resampled_codes \in ResampledOrders
    /\ timeline = Timeline(0, MaxTicks * DT)
    /\ i = 0
    /\ frames = <<>>
    /\ driver_last_seen_lap =
           [c \in {resampled_codes[k] : k \in 1..Len(resampled_codes)} |-> 0]
    /\ driver_finish_frame = EmptyDict
    /\ race_leader_finished_frame = None

NextTicks == Tick

Spec == InitTicks /\ [][NextTicks]_vars

(***************************************************************************)
(* Leaderboard verifier (leaderboard_verifier.py)                          *)
(***************************************************************************)
\* decoded JSON values
JNull == [null |-> TRUE]
JStr(x) == [str |-> x]
JList(x) == [list |-> x]
JDict(x) == [dict |-> x]

IsNull(x) == "null" \in DOMAIN x
IsStr(x)  == "str" \in DOMAIN x
IsList(x) == "list" \in DOMAIN x
IsDict(x) == "dict" \in DOMAIN x

\* d.get(k, default) on a dict
DictGet(d, k, default) == IF k \in DOMAIN d.dict THEN d.dict[k] ELSE default

\* "not x" for a decoded JSON value
Falsy(x) ==
    \/ IsNull(x)
    \/ (IsList(x) /\ Len(x.list) = 0)
    \/ (IsDict(x) /\ DOMAIN x.dict = {})
    \/ (IsStr(x) /\ x.str = "")

Return(x) == [kind |-> "return", value |-> x]
Raise(x)  == [kind |-> "raise", exc |-> x]

UnclassifiedPosition == 999

IntOfString == ("1" :> 1) @@ ("2" :> 2) @@ ("3" :> 3)

\* 59-63: int(position_str), 999 on ValueError or TypeError
ParsePosition(x) ==
    IF IsStr(x) /\ x.str \in DOMAIN IntOfString
    THEN IntOfString[x.str]
    ELSE UnclassifiedPosition

RECURSIVE ExtractResults(_, _)
\* 52-73: for result in results; result.get and driver.get raise
\* AttributeError on a value that is no dict
ExtractResults(race_results, acc) ==
    IF Len(race_results) = 0 THEN Return(Some(acc))
    ELSE LET result == Head(race_results)
         IN  IF ~IsDict(result) THEN Raise("AttributeError")
             ELSE LET driver == DictGet(result, "Driver", JDict(EmptyDict))
                  IN  IF ~IsDict(driver) THEN Raise("AttributeError")
                      ELSE ExtractResults(Tail(race_results), Append(acc,
                               [code     |-> DictGet(driver, "code", JStr("")).str,
                                position |-> ParsePosition(
                                    DictGet(result, "position", JStr("")))]))

\* 38-49 after data = response.json(): the .get chain and races[0]
NavigateResults(data) ==
    IF ~IsDict(data) THEN Raise("AttributeError")
    ELSE LET mrdata == DictGet(data, "MRData", JDict(EmptyDict))
    IN  IF ~IsDict(mrdata) THEN Raise("AttributeError")
    ELSE LET racetable == DictGet(mrdata, "RaceTable", JDict(EmptyDict))
    IN  IF ~IsDict(racetable) THEN Raise("AttributeError")
    ELSE LET races == DictGet(racetable, "Races", JList(<<>>))
    IN  IF Falsy(races) THEN Return(None)                       \* 40-42
    ELSE IF IsDict(races) THEN Return(None)      \* races[0]: KeyError, 78-80
    ELSE LET race == races.list[1]
    IN  IF ~IsDict(race) THEN Raise("AttributeError")
    ELSE LET race_results == DictGet(race, "Results", JList(<<>>))
    IN  IF Falsy(race_results) THEN Return(None)                \* 47-49
    ELSE ExtractResults(race_results.list, <<>>)

\* fetch_race_results_from_jolpica (16-80): a RequestException (no
\* connection, timeout, HTTP error status, a body that is no JSON) gives None
Fetch(resp) ==
    IF resp.transport # "ok" THEN Return(None)                  \* 75-77
    ELSE NavigateResults(resp.body)

RECURSIVE VerifiedPositions(_, _)
\* 108-112
VerifiedPositions(api_results, acc) ==
    IF Len(api_results) = 0 THEN acc
    ELSE VerifiedPositions(Tail(api_results),
             Put(acc, Head(api_results).code, Head(api_results).position))

\* 114-126
Discrepancies(cur, verified) ==
    {c \in (DOMAIN cur) \cap (DOMAIN verified) : cur[c] # verified[c]}

\* the external positions merged into the telemetry-derived ones
VerifyMerge(cur, api_results) ==
    IF api_results = None \/ Len(api_results[1]) = 0 THEN cur
    ELSE LET verified == VerifiedPositions(api_results[1], EmptyDict)
         IN  IF Discrepancies(cur, verified) # {}
             THEN [c \in (DOMAIN cur) \cup (DOMAIN verified) |->
                      IF c \in DOMAIN verified THEN verified[c] ELSE cur[c]]
             ELSE cur

\* verify_and_correct_final_positions after the fetch (103-137)
Verify(cur, api_results) ==
    IF api_results = None \/ Len(api_results[1]) = 0 THEN cur   \* 103-105
    ELSE LET verified == VerifiedPositions(api_results[1], EmptyDict)
         IN  IF Discrepancies(cur, verified) # {} THEN verified ELSE cur

\* verify_and_correct_final_positions (83-137)
VerifyAndCorrect ==
    /\ pc = "verify"
    /\ LET fetched == Fetch(response)
       IN  IF fetched.kind = "raise"
           THEN /\ pc' = "raised"
                /\ error' = Some(fetched.exc)
                /\ UNCHANGED returned
           ELSE /\ pc' = "returned"
                /\ returned' = Some(Verify(current_positions, fetched.value))
                /\ UNCHANGED error
    /\ UNCHANGED <<traceVars, timeline, tickVars, verifierVars, cacheVars>>

NextVerifier == VerifyAndCorrect

\* one entry of the Results list of the endpoint
ResultEntries ==
    {JDict([Driver |-> JDict([code |-> JStr(c)]), position |-> JStr(p)]) :
        c \in Codes, p \in PositionStrings}
    \cup {JDict([Driver |-> JNull, position |-> JStr("1")]),
          JDict([position |-> JStr("1")])}

RaceBody(races) == JDict([MRData |-> JDict([RaceTable |-> JDict([Races |-> races])])])

\* bodies the endpoint can answer with: a race with its results, and the
\* shapes that lack a part or hold another type in its place
Bodies ==
    {RaceBody(JList(<<JDict([Results |-> JList(rs)])>>)) :
        rs \in SeqsOfLen(ResultEntries, 0..MaxResults)}
    \cup {RaceBody(JList(<<>>)), RaceBody(JNull),
          RaceBody(JDict([total |-> JStr("0")])),
          RaceBody(JList(<<JNull>>)),
          RaceBody(JList(<<JDict([season |-> JStr("2024")])>>)),
          JDict(EmptyDict),
          JDict([MRData |-> JNull]),
          JDict([MRData |-> JDict([RaceTable |-> JNull])]),
          JList(<<>>)}

Responses ==
    {[transport |-> "ok", body |-> b] : b \in Bodies}
    \cup {[transport |-> t, body |-> JNull] :
            t \in {"timeout", "http_error", "invalid_json"}}

\* the call verify_and_correct_final_positions(current_positions, year, round)
InitVerifier ==
    /\ pc = "verify"
    /\ error = None
    /\ returned = None
    /\ \E present \in SUBSET Codes : current_positions \in [present -> PositionValues]
    /\ response \in Responses
    /\ TraceIdle
    /\ timeline = <<>>
    /\ TicksIdle
    /\ CacheIdle

SpecVerifier == InitVerifier /\ [][NextVerifier]_vars

(***************************************************************************)
(* Claims on the verifier                                                  *)
(***************************************************************************)
\* the endpoint was reached and gave a non-empty result list
Usable == Fetch(response).kind = "return" /\ Fetch(response).value # None

ExternalResults == Fetch(response).value[1]
ExternalCodes == {ExternalResults[k].code : k \in 1..Len(ExternalResults)}
\* the position of the last entry of the external list with this code
ExternalPosition(c) ==
    LET last == SetMax({k \in 1..Len(ExternalResults) : ExternalResults[k].code = c})
    IN  ExternalResults[last].position

IsFullReplacement(m) ==
    /\ DOMAIN m = ExternalCodes
    /\ \A c \in ExternalCodes : m[c] = ExternalPosition(c)

\* C6 as stated: with a usable external result the returned mapping is the
\* external one (full replacement), for every input mapping.
C6_FullReplacement ==
    (pc = "returned" /\ Usable) => IsFullReplacement(returned[1])

\* C6 amended: with a usable external result the returned mapping is the
\* external one (full replacement) when some driver code of the input that
\* is also in the external result has a different position there; otherwise
\* the input mapping is returned unchanged.
C6_ReplacementOnDiscrepancy ==
    (pc = "returned" /\ Usable) =>
        IF \E c \in (DOMAIN current_positions) \cap ExternalCodes :
               current_positions[c] # ExternalPosition(c)
        THEN IsFullReplacement(returned[1])
        ELSE returned[1] = current_positions

\* a discrepancy on one driver, and a driver of the input that the external
\* result lacks is dropped
C6_Witness ==
    /\ pc = "returned"
    /\ Usable
    /\ DOMAIN current_positions = {"VER", "HAM"}
    /\ ExternalCodes = {"VER"}
    /\ current_positions["VER"] # ExternalPosition("VER")
    /\ DOMAIN returned[1] = {"VER"}

\* C7: when the endpoint is unreachable or its response unusable, the
\* function raises no error and returns its input mapping unchanged.
C7_DegradeUnchanged ==
    (pc # "verify" /\ ~Usable) =>
        /\ pc = "returned"
        /\ error = None
        /\ returned = Some(current_positions)

(***************************************************************************)
(* Result cache (f1_data.py 27-53, 367-390)                                *)
(***************************************************************************)
\* Python sequences by type; json.dump writes both as an array and
\* json.load reads an array back as a list
PyTuple(x) == [tuple |-> x]
PyList(x) == [list |-> x]
JsonArray(x) == [array |-> x]
Items(x) == IF "tuple" \in DOMAIN x THEN x.tuple ELSE x.list

\* str(session).replace(' ', '_') keyed on the first word only
EventNameFirstWord(session) == <<session.name[1]>>

\* event_name = str(session).replace(' ', '_')   (41); the name is a
\* sequence of words and spaces
EventName(session) ==
    [k \in 1..Len(session.name) |->
        IF session.name[k] = " " THEN "_" ELSE session.name[k]]

\* int(c, 16) of one character
HexDigit ==
    ("0" :> 0) @@ ("1" :> 1) @@ ("2" :> 2) @@ ("3" :> 3) @@ ("4" :> 4) @@
    ("5" :> 5) @@ ("6" :> 6) @@ ("7" :> 7) @@ ("8" :> 8) @@ ("9" :> 9) @@
    ("A" :> 10) @@ ("B" :> 11) @@ ("C" :> 12) @@ ("D" :> 13) @@ ("E" :> 14) @@
    ("F" :> 15)

\* hex_color.lstrip('#')   (33); a colour is a sequence of characters
RECURSIVE LStripHash(_)
LStripHash(hex) ==
    IF Len(hex) > 0 /\ Head(hex) = "#" THEN LStripHash(Tail(hex)) ELSE hex

\* tuple(int(hex_color[i:i+2], 16) for i in (0, 2, 4))   (34)
HexToRgb(hex) ==
    LET h == LStripHash(hex)
    IN  PyTuple([k \in 1..3 |-> 16 * HexDigit[h[2 * k - 1]] + HexDigit[h[2 * k]]])

\* get_driver_colors (27-36)
GetDriverColors(session) ==
    [c \in DOMAIN session.color_mapping |-> HexToRgb(session.color_mapping[c])]

\* the bundle of 374-380 and 384-390; session.assembled is what lines
\* 56-365 build for this session
ComputeBundle(session) ==
    [frames               |-> PyList(session.assembled.frames),
     driver_colors        |-> GetDriverColors(session),
     track_statuses       |-> PyList(session.assembled.track_statuses),
     driver_status        |-> session.assembled.driver_status,
     driver_finish_frames |-> session.assembled.driver_finish_frames]

\* json.dump(bundle, f)   (373-380)
JsonDump(b) ==
    [frames               |-> JsonArray(Items(b.frames)),
     driver_colors        |-> [c \in DOMAIN b.driver_colors |->
                                  JsonArray(Items(b.driver_colors[c]))],
     track_statuses       |-> JsonArray(Items(b.track_statuses)),
     driver_status        |-> b.driver_status,
     driver_finish_frames |-> b.driver_finish_frames]

\* json.load(f)   (48)
JsonLoad(doc) ==
    [frames               |-> PyList(doc.frames.array),
     driver_colors        |-> [c \in DOMAIN doc.driver_colors |->
                                  PyList(doc.driver_colors[c].array)],
     track_statuses       |-> PyList(doc.track_statuses.array),
     driver_status        |-> doc.driver_status,
     driver_finish_frames |-> doc.driver_finish_frames]

CallRecord(id, refresh, computed) ==
    Some([session |-> id, refresh |-> refresh, computed |-> computed,
          cache_before |-> cache, known |-> first_returned[id] # None])

\* get_race_telemetry(session) without --refresh-data, the file exists
\* (45-51): the stored bundle is returned
LoadCached(id) ==
    /\ pc = "cache"
    /\ requests < MaxRequests
    /\ cache[EventName(sessions[id])] # None
    /\ returned' = Some(JsonLoad(cache[EventName(sessions[id])][1]))
    /\ last_call' = CallRecord(id, FALSE, FALSE)
    /\ requests' = requests + 1
    /\ UNCHANGED <<pc, error, traceVars, timeline, tickVars, verifierVars,
                   sessions, cache, computations, first_returned,
                   concurrentVars>>

\* get_race_telemetry(session) with --refresh-data, or FileNotFoundError
\* (52-53): the bundle is computed, written and returned (56-390)
ComputeAndSave(id, refresh) ==
    /\ pc = "cache"
    /\ requests < MaxRequests
    /\ refresh \/ cache[EventName(sessions[id])] = None
    /\ LET bundle == ComputeBundle(sessions[id])
       IN  /\ cache' = [cache EXCEPT ![EventName(sessions[id])] =
                           Some(JsonDump(bundle))]
           /\ returned' = Some(bundle)
           /\ first_returned' =
                  IF first_returned[id] = None
                  THEN [first_returned EXCEPT ![id] = Some(bundle)]
                  ELSE first_returned
    /\ computations' = [computations EXCEPT ![id] = @ + 1]
    /\ last_call' = CallRecord(id, refresh, TRUE)
    /\ requests' = requests + 1
    /\ UNCHANGED <<pc, error, traceVars, timeline, tickVars, verifierVars,
                   sessions, concurrentVars>>

NextCache ==
    \/ \E id \in DOMAIN sessions : LoadCached(id)
    \/ \E id \in DOMAIN sessions, refresh \in BOOLEAN : ComputeAndSave(id, refresh)

\* what lines 56-365 built for a session: one frame, and two frames with
\* the race finished
AssembledOneFrame ==
    [frames |-> <<Frame(0, 1, <<[code |-> "VER", dist |-> 0, lap |-> 1]>>, None)>>,
     track_statuses |-> <<[status |-> "1", start_time |-> 0, end_time |-> None]>>,
     driver_status |-> [c \in {"VER"} |->
         DriverStatus([Status |-> "Finished", ClassifiedPosition |-> "1", Laps |-> 1])],
     driver_finish_frames |-> EmptyDict]

AssembledFinished ==
    [frames |-> <<Frame(0, 1, <<[code |-> "HAM", dist |-> 1, lap |-> 1],
                                 [code |-> "VER", dist |-> 0, lap |-> 1]>>, None),
                  Frame(DT, 2, <<[code |-> "HAM", dist |-> 1, lap |-> 2],
                                  [code |-> "VER", dist |-> 0, lap |-> 1]>>, Some(1))>>,
     track_statuses |-> <<>>,
     driver_status |-> [c \in Codes |->
         DriverStatus([Status |-> "Finished", ClassifiedPosition |-> "1", Laps |-> 1])],
     driver_finish_frames |-> [c \in {"HAM"} |-> 1]]

SessionNames == {<<"2024", " ", "Bahrain">>, <<"2024", " ", "Monza">>}
HexColors == {<<"#", "3", "6", "7", "1", "C", "6">>, <<"2", "7", "F", "4", "D", "2">>}
ColorMappings ==
    {EmptyDict} \cup UNION {[present -> HexColors] : present \in {{"VER"}, Codes}}

\* two sessions, one per event, and an empty computed_data/ directory
InitCache ==
    /\ pc = "cache"
    /\ error = None
    /\ returned = None
    /\ sessions \in [{1, 2} -> [name : SessionNames,
                                color_mapping : ColorMappings,
                                assembled : {AssembledOneFrame, AssembledFinished}]]
    /\ sessions[1].name = <<"2024", " ", "Bahrain">>
    /\ sessions[2].name = <<"2024", " ", "Monza">>
    /\ cache = [k \in {EventName(sessions[id]) : id \in {1, 2}} |-> None]
    /\ requests = 0
    /\ computations = [id \in {1, 2} |-> 0]
    /\ first_returned = [id \in {1, 2} |-> None]
    /\ last_call = None
    /\ ConcurrentIdle
    /\ current_positions = EmptyDict
    /\ response = None
    /\ TraceIdle
    /\ timeline = <<>>
    /\ TicksIdle

SpecCache == InitCache /\ [][NextCache]_vars

(***************************************************************************)
(* Claims on the cache                                                     *)
(***************************************************************************)
\* the last call was made without the refresh flag for a session whose
\* bundle an earlier call had computed and persisted
LaterPlainCall ==
    /\ last_call # None
    /\ ~last_call[1].refresh
    /\ last_call[1].known

LastKey == EventName(sessions[last_call[1].session])

\* C5 as stated: a later call without the refresh flag returns a bundle
\* equal to the one the original computation returned, without recomputing
\* and without modifying the cache entry.
C5_CacheHitEqualsOriginal ==
    LaterPlainCall =>
        /\ ~last_call[1].computed
        /\ cache = last_call[1].cache_before
        /\ returned[1] = first_returned[last_call[1].session][1]

\* C5 amended: a later call without the refresh flag returns the stored
\* bundle as json.load decodes it, without recomputing and without
\* modifying the cache entry; it encodes to the same JSON as the bundle the
\* original computation returned and differs from it only in that each
\* driver colour is a list [r, g, b] instead of a tuple.  With the refresh
\* flag the bundle is recomputed and the entry rewritten.
C5_CacheHitReturnsStored ==
    /\ LaterPlainCall =>
        /\ ~last_call[1].computed
        /\ cache = last_call[1].cache_before
        /\ returned[1] = JsonLoad(cache[LastKey][1])
        /\ JsonDump(returned[1]) =
               JsonDump(first_returned[last_call[1].session][1])
        /\ \A c \in DOMAIN returned[1].driver_colors :
               returned[1].driver_colors[c] =
                   PyList(first_returned[last_call[1].session][1].driver_colors[c].tuple)
    /\ (last_call # None /\ last_call[1].refresh) =>
        /\ last_call[1].computed
        /\ returned[1] = ComputeBundle(sessions[last_call[1].session])
        /\ cache[LastKey] = Some(JsonDump(returned[1]))

\* the third call for a session, the second served from the cache, with
\* driver colours in the bundle and the other session computed in between
C5_Witness ==
    /\ LaterPlainCall
    /\ requests = MaxRequests
    /\ computations[last_call[1].session] = 1
    /\ \E other \in DOMAIN sessions :
           other # last_call[1].session /\ computations[other] >= 1
    /\ DOMAIN returned[1].driver_colors # {}

(***************************************************************************)
(* Claims on the tick loop                                                 *)
(***************************************************************************)
FrameCodes(f) == DOMAIN f.drivers

FrameRanksOk(f) ==
    LET n == Cardinality(FrameCodes(f))
    IN  /\ {f.drivers[c].position : c \in FrameCodes(f)} = 1..n
        /\ \A c, d \in FrameCodes(f) :
               c # d => f.drivers[c].position # f.drivers[d].position
        /\ \A c \in FrameCodes(f) :
               f.drivers[c].position = 1 =>
                   \A d \in FrameCodes(f) : f.drivers[c].dist >= f.drivers[d].dist

\* C1: in every emitted frame the positions are exactly 1..n, each used
\* once, and the driver at position 1 has a dist >= every other driver's.
C1_FrameRanks == \A k \in 1..Len(frames) : FrameRanksOk(frames[k])

\* a two-driver frame the sort reordered: the driver inserted second leads
C1_Witness ==
    \E k \in 1..Len(frames) :
        /\ FrameCodes(frames[k]) = {"VER", "HAM"}
        /\ frames[k].drivers["HAM"].position = 1
        /\ frames[k].drivers["VER"].position = 2
        /\ frames[k].drivers["HAM"].dist > frames[k].drivers["VER"].dist

\* C2: for frames a < b, race_finished at a implies race_finished at b.
C2_RaceFinishedStays ==
    \A a, b \in 1..Len(frames) :
        (a < b /\ frames[a].race_finished) => frames[b].race_finished

\* the leader-finish frame was recorded at the first tick and the next
\* frame's leader is another driver, who has not exceeded their laps
C2_Witness ==
    /\ Len(frames) >= 2
    /\ frames[1].race_finished
    /\ frames[2].race_finished
    /\ FrameCodes(frames[2]) = {"VER", "HAM"}
    /\ \E c \in Codes, d \in DOMAIN driver_status_map :
        /\ c # d
        /\ frames[1].drivers[c].position = 1
        /\ frames[2].drivers[d].position = 1
        /\ frames[2].drivers[d].lap <= driver_status_map[d].laps_completed

\* C9: every driver with an entry in driver_finish_frames is classified as
\* finished (is_finished), after any prefix of ticks.
C9_FinishFrameOnlyIfFinished ==
    \A c \in DOMAIN driver_finish_frame :
        /\ c \in DOMAIN driver_status_map
        /\ driver_status_map[c].is_finished

\* C10: once driver_finish_frames[code] is recorded, no later tick changes it.
C10_FinishFrameSetOnce ==
    [][\A c \in DOMAIN driver_finish_frame :
          /\ c \in DOMAIN driver_finish_frame'
          /\ driver_finish_frame'[c] = driver_finish_frame[c]]_vars

(***************************************************************************)
(* Claims on the lap normalizer and the timeline                           *)
(***************************************************************************)
RECURSIVE Concat(_)
Concat(ss) == IF Len(ss) = 0 THEN <<>> ELSE Head(ss) \o Concat(Tail(ss))

\* the laps follow each other in time and, within a lap, the in-lap
\* distance does not decrease with time
LapsInOrder(laps) ==
    /\ StrictlyIncreasing(Concat([n \in 1..Len(laps) |->
           [k \in 1..Len(laps[n]) |-> laps[n][k].t]]))
    /\ \A n \in 1..Len(laps) :
           NonDecreasing([k \in 1..Len(laps[n]) |-> laps[n][k].d])

\* no two samples of the driver carry the same timestamp, so that the
\* order argsort gives equal timestamps plays no part
DistinctTimes(laps) ==
    LET ts == Concat([n \in 1..Len(laps) |->
                  [k \in 1..Len(laps[n]) |-> laps[n][k].t]])
    IN  \A a, b \in 1..Len(ts) : a # b => ts[a] # ts[b]

\* C3 as stated: for any per-lap input (overlapping laps, in-lap distance
\* not monotone in time) the merged, time-sorted race-cumulative-distance
\* of every driver is non-decreasing; stated on the inputs whose timestamps
\* are pairwise distinct.
C3_DistNonDecreasingAnyInput ==
    \A c \in DOMAIN driver_data :
        DistinctTimes(session_laps[c]) => NonDecreasing(driver_data[c].dist)

\* C3 amended: the race-cumulative-distance is non-decreasing along the
\* sorted sequence when the timestamps strictly increase in lap order and
\* no lap's in-lap distance decreases with time.
C3_DistNonDecreasing ==
    \A c \in DOMAIN driver_data :
        LapsInOrder(session_laps[c]) => NonDecreasing(driver_data[c].dist)

\* two laps with telemetry, the first of positive length, merged
C3_Witness ==
    /\ "VER" \in DOMAIN driver_data
    /\ LapsInOrder(session_laps["VER"])
    /\ Len(session_laps["VER"]) = 2
    /\ Len(session_laps["VER"][1]) = 2
    /\ Len(session_laps["VER"][2]) = 2
    /\ driver_data["VER"].dist = <<0, 1, 1, 2>>

CeilDiv(a, b) == (a + b - 1) \div b

GridBuilt == pc = "resample" /\ global_t_min[1] < global_t_max[1]
GridRange == global_t_max[1] - global_t_min[1]

C8_EmptySessionDegrades ==
    (pc # "drivers" /\ driver_data = EmptyDict) =>
        (error = None /\ timeline = <<>>)

(***************************************************************************)
(* Concurrent runs of get_race_telemetry on one event's cache file         *)
(* (f1_data.py 45-53, 368-390).  The file is written in place: opening   *)
(* it with mode "w" creates or truncates it and json.dump then writes the  *)
(* text piece by piece; a reader opens the same path and json.load parses  *)
(* what is on disk at that moment.                                         *)
(***************************************************************************)
Procs == {"run1", "run2"}

\* the keys of the bundle in the order json.dump writes them (374-380)
BundleKeys == <<"frames", "driver_colors", "track_statuses", "driver_status",
                "driver_finish_frames">>

OpenBrace == [tok |-> "{"]
CloseBrace == [tok |-> "}"]
Member(key, val) == [tok |-> "member", key |-> key, val |-> val]
\* what a read returns for a range of the file that was never written
NulByte == [tok |-> "nul"]

\* the text json.dump writes for a document (373-380), as its pieces: the
\* opening brace, one piece per member, the closing brace
JsonText(doc) ==
    <<OpenBrace>>
    \o [k \in 1..Len(BundleKeys) |-> Member(BundleKeys[k], doc[BundleKeys[k]])]
    \o <<CloseBrace>>

\* the parse of json.load (48): the document of a complete object text, or
\* None where json.load raises JSONDecodeError
JsonParse(text) ==
    LET n    == Len(text)
        mids == 2..(n - 1)
        keys == {text[k].key : k \in mids}
        last(key) == CHOOSE k \in mids :
                         /\ text[k].key = key
                         /\ \A j \in mids : text[j].key = key => j <= k
    IN  IF /\ n >= 2
           /\ text[1].tok = "{"
           /\ text[n].tok = "}"
           /\ \A k \in mids : text[k].tok = "member"
        THEN Some([key \in keys |-> text[last(key)].val])
        ELSE None

\* f.write(piece) on a handle whose offset is pos: the piece replaces what
\* is at that offset, and a gap before it reads as NUL
WriteAt(text, pos, piece) ==
    IF pos < Len(text)
    THEN [text EXCEPT ![pos + 1] = piece]
    ELSE text \o [k \in 1..(pos - Len(text)) |-> NulByte] \o <<piece>>

\* both runs are given the same session
TheSession == sessions["s"]

\* the text this computation writes (373-380)
NewText == JsonText(JsonDump(ComputeBundle(TheSession)))

\* lines 45-46 and 52-53: with --refresh-data the read is skipped; without
\* it the file is opened, and FileNotFoundError leads to the computation
OpenRead(p) ==
    /\ pc = "concurrent"
    /\ procs[p].pc = "start"
    /\ procs' = [procs EXCEPT ![p].pc =
                    IF procs[p].refresh \/ file = None
                    THEN "compute" ELSE "opened"]
    /\ UNCHANGED <<pc, error, returned, traceVars, timeline, tickVars,
                   verifierVars, sessions, cache, requests, computations,
                   first_returned, last_call, file, file_before>>

\* line 47-50: json.load(f) reads what is on disk now; it returns the
\* decoded bundle or raises JSONDecodeError, which line 52 does not catch
Load(p) ==
    /\ pc = "concurrent"
    /\ procs[p].pc = "opened"
    /\ LET parsed == JsonParse(file[1])
       IN  procs' = [procs EXCEPT
                        ![p].seen = Some(file[1]),
                        ![p].pc = IF parsed = None THEN "raised" ELSE "done",
                        ![p].error = IF parsed = None
                                     THEN Some("JSONDecodeError") ELSE None,
                        ![p].result = IF parsed = None
                                      THEN None ELSE Some(JsonLoad(parsed[1]))]
    /\ UNCHANGED <<pc, error, returned, traceVars, timeline, tickVars,
                   verifierVars, sessions, cache, requests, computations,
                   first_returned, last_call, file, file_before>>

\* lines 56-373: the bundle is computed and open(.., "w") creates the file
\* or truncates it to length 0
OpenWrite(p) ==
    /\ pc = "concurrent"
    /\ procs[p].pc = "compute"
    /\ file' = Some(<<>>)
    /\ procs' = [procs EXCEPT ![p].pc = "writing", ![p].pos = 0]
    /\ UNCHANGED <<pc, error, returned, traceVars, timeline, tickVars,
                   verifierVars, sessions, cache, requests, computations,
                   first_returned, last_call, file_before>>

\* lines 374-390: the next piece of the text reaches the file; after the
\* last one the file is closed and the bundle returned
Write(p) ==
    /\ pc = "concurrent"
    /\ procs[p].pc = "writing"
    /\ LET pos == procs[p].pos
           end == pos + 1 = Len(NewText)
       IN  /\ file' = Some(WriteAt(file[1], pos, NewText[pos + 1]))
           /\ procs' = [procs EXCEPT
                           ![p].pos = pos + 1,
                           ![p].pc = IF end THEN "done" ELSE "writing",
                           ![p].result = IF end
                                         THEN Some(ComputeBundle(TheSession))
                                         ELSE None]
    /\ UNCHANGED <<pc, error, returned, traceVars, timeline, tickVars,
                   verifierVars, sessions, cache, requests, computations,
                   first_returned, last_call, file_before>>

NextConcurrent ==
    \E p \in Procs : OpenRead(p) \/ Load(p) \/ OpenWrite(p) \/ Write(p)

\* the sessions an earlier computation of the same event may have had
EarlierSessions ==
    [name : {TheSession.name}, color_mapping : ColorMappings,
     assembled : {AssembledOneFrame, AssembledFinished}]

\* two runs for the same event about to start, each with or without
\* --refresh-data; the cache file is absent or holds the complete entry of
\* an earlier computation
InitConcurrent ==
    /\ pc = "concurrent"
    /\ error = None
    /\ returned = None
    /\ sessions \in [{"s"} -> [name : {<<"2024", " ", "Bahrain">>},
                               color_mapping : ColorMappings,
                               assembled : {AssembledOneFrame, AssembledFinished}]]
    /\ file_before \in {None} \cup
           {Some(JsonText(JsonDump(ComputeBundle(s)))) : s \in EarlierSessions}
    /\ file = file_before
    /\ procs \in [Procs -> [pc : {"start"}, refresh : BOOLEAN, pos : {0},
                            seen : {None}, result : {None}, error : {None}]]
    /\ cache = EmptyDict
    /\ requests = 0
    /\ computations = EmptyDict
    /\ first_returned = EmptyDict
    /\ last_call = None
    /\ current_positions = EmptyDict
    /\ response = None
    /\ TraceIdle
    /\ timeline = <<>>
    /\ TicksIdle

SpecConcurrent == InitConcurrent /\ [][NextConcurrent]_vars

(***************************************************************************)
(* C11                                                                     *)
(***************************************************************************)
\* the entry a text on disk holds, or None if the text is not a complete
\* entry
EntryOf(text) == JsonParse(text)

\* what a run read from the file is the complete entry from before the runs
\* or the complete entry this computation writes
SawCompleteEntry(p) ==
    LET entry == EntryOf(procs[p].seen[1])
    IN  /\ entry # None
        /\ \/ entry = EntryOf(NewText)
           \/ file_before # None /\ entry = EntryOf(file_before[1])

\* C11: while one run of get_race_telemetry writes the cache entry of an
\* event, a concurrent run reading the same event never observes a
\* half-written entry: whatever it reads from the file is the complete
\* previous entry or the complete new entry (or it finds no file at all,
\* and then reads nothing).
C11_NoHalfWrittenEntry ==
    \A p \in DOMAIN procs : procs[p].seen # None => SawCompleteEntry(p)

====
